---- MODULE Spec2Model ----
(***************************************************************************)
(* Command processing and event emission pipeline of turing-payments-rails *)
(*                                                                         *)
(*   - the Emission Gate       (src/src/emit/validateEvent.ts)             *)
(*   - CommandIdempotencyStore (src/unnamed/part_002)                      *)
(*   - CommandRejectedEmitter  (src/src/command/CommandHandler.ts 198-364) *)
(*   - CommandHandler          (src/src/command/CommandHandler.ts 34-161)  *)
(*                                                                         *)
(* JavaScript runs every piece of code between two awaits atomically, so   *)
(* one action of the model is one such piece: a call up to its first       *)
(* await, or the resumption of a suspended call up to its next await or    *)
(* its return.                                                             *)
(***************************************************************************)
EXTENDS Integers, Sequences, FiniteSets, TLC

VARIABLES
    processedCommands,  \* CommandIdempotencyStore.processedCommands (a Map)
    now,                \* the wall clock read by new Date()
    nextId,             \* number of uuidv4() values drawn so far, plus one
    inv,                \* the handle() invocations, one record per call slot
    consoleLog,         \* the CommandRejected facts written by emit()
    storeCall,          \* outcome of the last direct call of the store's API
    markedSinceClear,   \* history: ids marked processed since the last clear()
    succeededSinceClear,\* history: ids some handle() returned success for
    cleared,            \* history: clear() has been called
    emitterCalls,       \* the emitter's helpers called directly, in order
    markedWith,         \* history: what markProcessed was given for each id
    globalStore,        \* part_002's module-level globalStore: null or a store
    idempotencyStore,   \* each handler instance's idempotencyStore field
    publisher,          \* the gate's module-level publisher
    publishCalls,       \* the calls of publisher.publish, in order
    delivered,          \* the events whose publish call resolved
    gate,               \* the callers of emitEvent / emitEvents
    names               \* a schema file and the names derived from it

handlerVars == <<processedCommands, now, nextId, inv, consoleLog, storeCall,
                 markedSinceClear, succeededSinceClear, cleared, emitterCalls,
                 markedWith, globalStore, idempotencyStore>>
instanceVars == <<globalStore, idempotencyStore>>
gateVars == <<publisher, publishCalls, delivered, gate, names>>
vars == <<processedCommands, now, nextId, inv, consoleLog, storeCall,
          markedSinceClear, succeededSinceClear, cleared, emitterCalls,
          markedWith, globalStore, idempotencyStore,
          publisher, publishCalls, delivered, gate, names>>

(***************************************************************************)
(* Bounds of the model.                                                    *)
(***************************************************************************)
\* uuidv4() values that may be drawn in one behaviour
MaxIds == 2
\* ticks of the wall clock in one behaviour
MaxClock == 1
\* longest batch handed to emitEvents
MaxBatch == 2
\* most words in the name of a schema file
MaxWords == 2

\* the value of an absent field or variable (undefined / null)
Undefined == "<undefined>"
\* "no error was thrown"
NoError == "<no error>"
\* JavaScript's null, and a field not yet assigned
Null == "<null>"

(***************************************************************************)
(* Strings.  TLC evaluates Len, SubSeq and \o on strings.                  *)
(***************************************************************************)
UpperCase == "ABCDEFGHIJKLMNOPQRSTUVWXYZ"
LowerCase == "abcdefghijklmnopqrstuvwxyz"

CharAt(str, i) == SubSeq(str, i, i)

IsUpper(c) == \E k \in 1..Len(UpperCase) : CharAt(UpperCase, k) = c

\* String.prototype.toLowerCase on one ASCII character
ToLower(c) ==
    IF IsUpper(c)
    THEN CharAt(LowerCase, CHOOSE k \in 1..Len(UpperCase) : CharAt(UpperCase, k) = c)
    ELSE c

\* String.prototype.includes
Includes(str, part) ==
    \E k \in 1..(Len(str) - Len(part) + 1) : SubSeq(str, k, k + Len(part) - 1) = part

\* str.replace(/([A-Z])/g, '_$1').toLowerCase(), from character i on
RECURSIVE UnderscoreLower(_, _)
UnderscoreLower(str, i) ==
    IF i > Len(str) THEN ""
    ELSE (IF IsUpper(CharAt(str, i)) THEN "_" ELSE "")
         \o ToLower(CharAt(str, i)) \o UnderscoreLower(str, i + 1)

\* .replace(/^_/, '')
StripLeadingUnderscore(str) ==
    IF Len(str) > 0 /\ CharAt(str, 1) = "_" THEN SubSeq(str, 2, Len(str)) ELSE str

\* faulty variant: the underscore put before a leading capital is kept
toSnakeCaseKeepsUnderscore(str) == UnderscoreLower(str, 1)

toSnakeCase(str) == StripLeadingUnderscore(UnderscoreLower(str, 1))

\* String.prototype.toUpperCase on one ASCII character
ToUpper(c) ==
    IF \E k \in 1..Len(LowerCase) : CharAt(LowerCase, k) = c
    THEN CharAt(UpperCase, CHOOSE k \in 1..Len(LowerCase) : CharAt(LowerCase, k) = c)
    ELSE c

\* str.split('_').map(word => word.charAt(0).toUpperCase() + word.slice(1))
\* .join(''), from character i on; wordStart: character i begins a word
RECURSIVE PascalFrom(_, _, _)
PascalFrom(str, i, wordStart) ==
    IF i > Len(str) THEN ""
    ELSE IF CharAt(str, i) = "_" THEN PascalFrom(str, i + 1, TRUE)
    ELSE (IF wordStart THEN ToUpper(CharAt(str, i)) ELSE CharAt(str, i))
         \o PascalFrom(str, i + 1, FALSE)

toPascalCase(str) == PascalFrom(str, 1, TRUE)

\* str.replace(pattern, replacement) with a string pattern: the first
\* occurrence only
ReplaceFirst(str, pattern, replacement) ==
    LET at == { k \in 1..(Len(str) - Len(pattern) + 1) :
                    SubSeq(str, k, k + Len(pattern) - 1) = pattern }
    IN IF at = {} THEN str
       ELSE LET k == CHOOSE m \in at : \A n \in at : m <= n
            IN SubSeq(str, 1, k - 1) \o replacement
               \o SubSeq(str, k + Len(pattern), Len(str))

(***************************************************************************)
(* The schema registry and validateEvent.                                  *)
(***************************************************************************)
\* the .json files of the schemas directory, each registered under its name
schemaFiles ==
    { "envelope.v1.json", "payment_settled.v1.json",
      "payment_initiated.v1.json", "command_rejected.v1.json" }

\* an absent field of a JavaScript object is a field the record does not have
Has(obj, field) == field \in DOMAIN obj

\* an event that is no object at all (null, a number)
NotAnObject == [not_an_object |-> TRUE]

\* !event || typeof event !== 'object'
IsObject(event) == ~Has(event, "not_an_object")

Rails == {"NPP", "BECS", "RTGS", "CARDS"}

\* the fields of the canonical event envelope that every event must carry
EnvelopeFields ==
    { "event_id", "event_type", "event_version", "occurred_at", "producer",
      "correlation_id", "entity_type", "entity_id", "payload" }

HasEnvelope(event) == \A f \in EnvelopeFields : Has(event, f)

\* the compiled validator of one registered schema, applied to an event
SchemaAccepts(schemaName, event) ==
    CASE schemaName = "payment_settled.v1.json" ->
            /\ HasEnvelope(event)
            /\ Has(event.payload, "ledger_posting")
            /\ event.payload.ledger_posting.amount > 0
      [] schemaName = "payment_initiated.v1.json" ->
            /\ HasEnvelope(event)
            /\ Has(event.payload, "rail")
            /\ event.payload.rail \in Rails
      [] schemaName = "command_rejected.v1.json" ->
            /\ Has(event, "payload")
            /\ Has(event.payload, "command_id")
            /\ Has(event.payload, "reason_code")
      [] OTHER -> TRUE

\* !event.event_type
MissingEventType(event) == ~Has(event, "event_type") \/ event.event_type = ""

\* the event types that occur in this model
EventTypes ==
    { "PaymentSettled", "PaymentInitiated", "UnsupportedEventType",
      "CommandRejected", "command_rejected.v1" }

\* `${toSnakeCase(event.event_type)}.v1.json`, computed once per event type
SchemaNameTable == [t \in EventTypes |-> toSnakeCase(t) \o ".v1.json"]

schemaNameOf(event) == SchemaNameTable[event.event_type]

\* ajv.getSchema(schemaName): the validator registered under that key, if any
getSchema(schemaName) == IF schemaName \in schemaFiles THEN schemaName ELSE Undefined

\* faulty variant: an event type without a schema of its own is validated
\* against a default schema
validateEventFallsBack(event) ==
    IF ~IsObject(event) THEN "Event must be an object"
    ELSE IF MissingEventType(event) THEN "Event missing event_type field"
    ELSE IF ~SchemaAccepts(IF getSchema(schemaNameOf(event)) = Undefined
                           THEN "payment_settled.v1.json"
                           ELSE getSchema(schemaNameOf(event)), event)
         THEN "Schema violation for " \o event.event_type \o ": data is invalid"
    ELSE NoError

\* validateEvent: the message of the Error it throws, or NoError
validateEvent(event) ==
    IF ~IsObject(event) THEN "Event must be an object"
    ELSE IF MissingEventType(event) THEN "Event missing event_type field"
    ELSE IF getSchema(schemaNameOf(event)) = Undefined
         THEN "No schema registered for " \o event.event_type
              \o " (expected " \o schemaNameOf(event) \o ")"
    ELSE IF ~SchemaAccepts(getSchema(schemaNameOf(event)), event)
         THEN "Schema violation for " \o event.event_type \o ": data is invalid"
    ELSE NoError

(***************************************************************************)
(* Events offered to the gate (the events of the emit-side tests).         *)
(***************************************************************************)
Without(obj, field) == [f \in DOMAIN obj \ {field} |-> obj[f]]

SettledValid ==
    [ event_id |-> "550e8400-e29b-41d4-a716-446655440000",
      event_type |-> "PaymentSettled",
      event_version |-> 1,
      occurred_at |-> "2024-12-17T10:00:00Z",
      producer |-> "turing-payments-rails",
      correlation_id |-> "550e8400-e29b-41d4-a716-446655440001",
      entity_type |-> "PAYMENT",
      entity_id |-> "pay_123",
      payload |-> [ payment_id |-> "pay_123",
                    ledger_posting |-> [amount |-> 100] ] ]

SettledMissingPosting ==
    [SettledValid EXCEPT !.payload = Without(SettledValid.payload, "ledger_posting")]

SettledNegativeAmount ==
    [SettledValid EXCEPT !.payload.ledger_posting.amount = -100]

InitiatedValid ==
    [SettledValid EXCEPT !.event_type = "PaymentInitiated",
                         !.payload = [payment_id |-> "pay_123", rail |-> "NPP"]]

InitiatedInvalidRail ==
    [InitiatedValid EXCEPT !.payload.rail = "INVALID_RAIL"]

UnsupportedType ==
    [SettledValid EXCEPT !.event_type = "UnsupportedEventType",
                         !.payload = [payment_id |-> "pay_123"]]

MissingType == Without(UnsupportedType, "event_type")

\* events that lack a field of the envelope other than event_type
SettledMissingEventId == Without(SettledValid, "event_id")
UnsupportedMissingEventId == Without(UnsupportedType, "event_id")

EmitEventInputs ==
    { SettledValid, SettledMissingPosting, SettledNegativeAmount, InitiatedValid,
      InitiatedInvalidRail, UnsupportedType, MissingType, NotAnObject,
      SettledMissingEventId, UnsupportedMissingEventId }

BatchInputs == { SettledValid, InitiatedValid, SettledMissingPosting, MissingType }

RECURSIVE SeqsUpTo(_, _)
SeqsUpTo(S, n) ==
    IF n = 0 THEN { <<>> }
    ELSE SeqsUpTo(S, n - 1)
         \cup { Append(q, x) : q \in { r \in SeqsUpTo(S, n - 1) : Len(r) = n - 1 }, x \in S }

Batches == SeqsUpTo(BatchInputs, MaxBatch)

(***************************************************************************)
(* The emission guard: setPublisher, emitEvent, emitEvents.                *)
(***************************************************************************)
NoPublisher == "<null>"
Publishers == {"event-bus"}

NotConfigured == "Event publisher not configured. Call setPublisher() first."
PublishFailed == "publish failed"

GateCallers == {"emitEvent", "emitEvents"}

IdleCall == [pc |-> "idle", events |-> <<>>, idx |-> 0, error |-> NoError]

\* faulty variant: the event is handed to the publisher before it is validated
emitEventSyncPublishesFirst(event, pub) ==
    IF pub = NoPublisher
    THEN [threw |-> NotConfigured, published |-> FALSE]
    ELSE [threw |-> validateEvent(event), published |-> TRUE]

\* faulty variant: the publisher check comes before the validation
emitEventSyncChecksPublisherFirst(event, pub) ==
    IF pub = NoPublisher
    THEN [threw |-> NotConfigured, published |-> FALSE]
    ELSE IF validateEvent(event) # NoError
         THEN [threw |-> validateEvent(event), published |-> FALSE]
         ELSE [threw |-> NoError, published |-> TRUE]

\* emitEvent up to its await: validate, then the publisher check, then the
\* call of publisher.publish.  threw: the Error thrown, published: whether
\* publisher.publish was called.
emitEventSync(event, pub) ==
    IF validateEvent(event) # NoError
    THEN [threw |-> validateEvent(event), published |-> FALSE]
    ELSE IF pub = NoPublisher
         THEN [threw |-> NotConfigured, published |-> FALSE]
         ELSE [threw |-> NoError, published |-> TRUE]

\* caller c runs emitEvent(events[k]) up to its await, events being its batch
StartEmit(c, events, k) ==
    LET out == emitEventSync(events[k], publisher) IN
    /\ publishCalls' =
          IF out.published
          THEN Append(publishCalls, [by |-> c, pos |-> k, event |-> events[k]])
          ELSE publishCalls
    /\ gate' = [gate EXCEPT ![c] =
          [ pc |-> IF out.threw # NoError THEN "thrown" ELSE "awaitPublish",
            events |-> events, idx |-> k, error |-> out.threw ]]

setPublisher(impl) ==
    /\ impl \in Publishers
    /\ publisher' = impl
    /\ UNCHANGED <<publishCalls, delivered, gate, names>>
    /\ UNCHANGED handlerVars

\* emitEvent(event)
emitEvent(event) ==
    /\ gate["emitEvent"].pc = "idle"
    /\ StartEmit("emitEvent", <<event>>, 1)
    /\ UNCHANGED <<publisher, delivered, names>>
    /\ UNCHANGED handlerVars

\* emitEvents(events): the loop up to the first await
emitEvents(events) ==
    /\ gate["emitEvents"].pc = "idle"
    /\ IF events = <<>>
       THEN /\ gate' = [gate EXCEPT !["emitEvents"] =
                          [pc |-> "returned", events |-> events, idx |-> 0, error |-> NoError]]
            /\ UNCHANGED publishCalls
       ELSE StartEmit("emitEvents", events, 1)
    /\ UNCHANGED <<publisher, delivered, names>>
    /\ UNCHANGED handlerVars

\* the promise of publisher.publish resolves: emitEvent returns, and the loop
\* of emitEvents goes on to its next event
publishResolves(c) ==
    /\ gate[c].pc = "awaitPublish"
    /\ delivered' = Append(delivered,
                      [by |-> c, pos |-> gate[c].idx, event |-> gate[c].events[gate[c].idx]])
    /\ IF gate[c].idx = Len(gate[c].events)
       THEN /\ gate' = [gate EXCEPT ![c].pc = "returned"]
            /\ UNCHANGED publishCalls
       ELSE StartEmit(c, gate[c].events, gate[c].idx + 1)
    /\ UNCHANGED <<publisher, names>>
    /\ UNCHANGED handlerVars

\* faulty variant: the loop swallows the rejection and goes on to the next event
publishRejectsGoesOn(c) ==
    /\ gate[c].pc = "awaitPublish"
    /\ IF gate[c].idx = Len(gate[c].events)
       THEN /\ gate' = [gate EXCEPT ![c].pc = "returned"]
            /\ UNCHANGED publishCalls
       ELSE StartEmit(c, gate[c].events, gate[c].idx + 1)
    /\ UNCHANGED <<publisher, delivered, names>>
    /\ UNCHANGED handlerVars

\* the promise of publisher.publish rejects: the error leaves emitEvent and
\* the loop of emitEvents
publishRejects(c) ==
    /\ gate[c].pc = "awaitPublish"
    /\ gate' = [gate EXCEPT ![c].pc = "thrown", ![c].error = PublishFailed]
    /\ UNCHANGED <<publisher, publishCalls, delivered, names>>
    /\ UNCHANGED handlerVars

\* no schema file looked at yet
NoNames == [pc |-> "none", file |-> Undefined, type |-> Undefined,
            schemaName |-> Undefined, typeAgain |-> Undefined]

\* words of the names of schema files
Words == {"payment", "settled", "initiated", "command", "rejected", "card", "sent"}

RECURSIVE NamesUpTo(_)
NamesUpTo(n) ==
    IF n = 1 THEN Words
    ELSE NamesUpTo(n - 1) \cup { a \o "_" \o w : a \in NamesUpTo(n - 1), w \in Words }

\* the file names the schemas directory may hold: the registered ones and
\* the others of the same naming scheme
CandidateFiles == schemaFiles \cup { n \o ".v1.json" : n \in NamesUpTo(MaxWords) }

\* one entry of getSupportedEventTypes(): the event type of a schema file
getSupportedEventTypes ==
    /\ names.pc = "registered"
    /\ names.file # "envelope.v1.json"
    /\ names' = [names EXCEPT !.pc = "supported",
                              !.type = toPascalCase(ReplaceFirst(names.file, ".v1.json", ""))]
    /\ UNCHANGED <<publisher, publishCalls, delivered, gate>>
    /\ UNCHANGED handlerVars

\* validateEvent maps the event type to its schema name, and the schema name
\* is read as an event type again
mapEventType ==
    /\ names.pc = "supported"
    /\ names' = [names EXCEPT !.pc = "mapped",
                              !.schemaName = toSnakeCase(names.type) \o ".v1.json",
                              !.typeAgain = toPascalCase(toSnakeCase(names.type))]
    /\ UNCHANGED <<publisher, publishCalls, delivered, gate>>
    /\ UNCHANGED handlerVars

NamesNext == getSupportedEventTypes \/ mapEventType

GateInit ==
    /\ publisher = NoPublisher
    /\ publishCalls = <<>>
    /\ delivered = <<>>
    /\ gate = [c \in GateCallers |-> IdleCall]
    /\ names = NoNames

GateNext ==
    \/ \E impl \in Publishers : setPublisher(impl)
    \/ \E event \in EmitEventInputs : emitEvent(event)
    \/ \E events \in Batches : emitEvents(events)
    \/ \E c \in GateCallers : publishResolves(c)
    \/ \E c \in GateCallers : publishRejects(c)

(***************************************************************************)
(* CommandIdempotencyStore.                                                *)
(***************************************************************************)
CommandIds == {"cmd-1", "cmd-2"}
CommandTypes == {"TestCommand", "InitiatePayment"}
\* the ids execute returns for the domain events it published
DomainEventIds == {"evt-success", "evt-other"}

\* new Date() / new Date().toISOString() at clock value t
DateAt(t) == "T" \o ToString(t)

EmptyStore == [c \in {} |-> c]

\* faulty variant: the lookup answers true for every id
isProcessedAlways(store, command_id) == TRUE

isProcessed(store, command_id) == command_id \in DOMAIN store

\* undefined where a CommandRecord is expected: a value without fields
NoRecord == [f \in {} |-> f]

\* faulty variant: the lookup answers with whatever record the map holds
getRecordOfAny(store, command_id) ==
    IF DOMAIN store # {} THEN store[CHOOSE k \in DOMAIN store : TRUE] ELSE NoRecord

getRecord(store, command_id) ==
    IF command_id \in DOMAIN store THEN store[command_id] ELSE NoRecord

count(store) == Cardinality(DOMAIN store)

AlreadyProcessed(command_id) == "Command " \o command_id \o " already processed"

\* Map.set
MapSet(store, key, value) ==
    [k \in DOMAIN store \cup {key} |-> IF k = key THEN value ELSE store[k]]

\* faulty variant: markProcessed without its guard, Map.set replacing the record
markProcessedOverwrites(store, command_id, command_type, result_event_id, t) ==
    [threw |-> NoError,
     store |-> MapSet(store, command_id,
                 [ command_id |-> command_id,
                   command_type |-> command_type,
                   processed_at |-> DateAt(t),
                   result_event_id |-> result_event_id ])]

\* faulty variant: markProcessed called without the result event id
markProcessedDropsEventId(store, command_id, command_type, result_event_id, t) ==
    IF command_id \in DOMAIN store
    THEN [threw |-> AlreadyProcessed(command_id), store |-> store]
    ELSE [threw |-> NoError,
          store |-> MapSet(store, command_id,
                      [ command_id |-> command_id,
                        command_type |-> command_type,
                        processed_at |-> DateAt(t),
                        result_event_id |-> Undefined ])]

\* markProcessed at clock value t: the Error it throws (or NoError) and the
\* map it leaves
markProcessed(store, command_id, command_type, result_event_id, t) ==
    IF isProcessed(store, command_id)
    THEN [threw |-> AlreadyProcessed(command_id), store |-> store]
    ELSE [threw |-> NoError,
          store |-> MapSet(store, command_id,
                      [ command_id |-> command_id,
                        command_type |-> command_type,
                        processed_at |-> DateAt(t),
                        result_event_id |-> result_event_id ])]

\* faulty variant: clear() leaves the map as it is
clearStoreKeeps(store) == store

\* clear(): the map it leaves
clearStore(store) == EmptyStore

(***************************************************************************)
(* CommandRejectedEmitter.                                                 *)
(***************************************************************************)
RejectionReason ==
    { "DUPLICATE_COMMAND", "INVALID_SCHEMA", "BUSINESS_RULE_VIOLATION",
      "INSUFFICIENT_FUNDS", "INVALID_STATE_TRANSITION", "AUTHORIZATION_FAILED",
      "RATE_LIMIT_EXCEEDED" }

\* the n-th value of uuidv4()
Uuid(n) == "uuid-" \o ToString(n)

\* a string that is neither undefined nor empty (x || y takes x)
Truthy(x) == x # Undefined /\ x # ""

EmptyObject == [k \in {} |-> k]

\* the event emit() builds from a payload, with the uuid and the clock it reads
RejectedEvent(payload, event_id, t) ==
    [ event_id |-> event_id,
      event_type |-> "command_rejected.v1",
      occurred_at |-> DateAt(t),
      schema_version |-> "v1",
      correlation_id |-> IF Truthy(payload.correlation_id)
                         THEN payload.correlation_id ELSE event_id,
      payload |-> [ command_id |-> payload.command_id,
                    command_type |-> payload.command_type,
                    reason_code |-> payload.reason_code,
                    reason_message |-> payload.reason_message,
                    rejected_at |-> payload.rejected_at,
                    metadata |-> IF Has(payload, "metadata")
                                 THEN payload.metadata ELSE EmptyObject ] ]

\* faulty variant: the event_id is derived from the command_id
emitIdFromCommand(payload, n, t) ==
    [ event |-> RejectedEvent(payload, "rej-" \o payload.command_id, t),
      threw |-> validateEvent(RejectedEvent(payload, "rej-" \o payload.command_id, t)),
      event_id |-> "rej-" \o payload.command_id ]

\* emit(payload): the event built, the Error validateEvent throws on it (or
\* NoError), and the event_id returned when nothing is thrown
emit(payload, n, t) ==
    [ event |-> RejectedEvent(payload, Uuid(n), t),
      threw |-> validateEvent(RejectedEvent(payload, Uuid(n), t)),
      event_id |-> Uuid(n) ]

DuplicateCommandPayload(command_id, command_type, correlation_id, t) ==
    [ command_id |-> command_id,
      command_type |-> command_type,
      reason_code |-> "DUPLICATE_COMMAND",
      reason_message |-> "Command " \o command_id \o " has already been processed",
      rejected_at |-> DateAt(t),
      correlation_id |-> correlation_id ]

InvalidSchemaPayload(command_id, command_type, validation_error, correlation_id, t) ==
    [ command_id |-> command_id,
      command_type |-> command_type,
      reason_code |-> "INVALID_SCHEMA",
      reason_message |-> "Command validation failed: " \o validation_error,
      rejected_at |-> DateAt(t),
      correlation_id |-> correlation_id,
      metadata |-> [validation_error |-> validation_error] ]

BusinessRuleViolationPayload(command_id, command_type, rule_violation, correlation_id, t) ==
    [ command_id |-> command_id,
      command_type |-> command_type,
      reason_code |-> "BUSINESS_RULE_VIOLATION",
      reason_message |-> "Business rule violation: " \o rule_violation,
      rejected_at |-> DateAt(t),
      correlation_id |-> correlation_id,
      metadata |-> [rule_violation |-> rule_violation] ]

InsufficientFundsPayload(command_id, command_type, required_amount, available_amount, correlation_id, t) ==
    [ command_id |-> command_id,
      command_type |-> command_type,
      reason_code |-> "INSUFFICIENT_FUNDS",
      reason_message |-> "Insufficient funds: required " \o ToString(required_amount)
                         \o ", available " \o ToString(available_amount),
      rejected_at |-> DateAt(t),
      correlation_id |-> correlation_id,
      metadata |-> [ required_amount |-> required_amount,
                     available_amount |-> available_amount ] ]

InvalidStateTransitionPayload(command_id, command_type, current_state, attempted_transition, correlation_id, t) ==
    [ command_id |-> command_id,
      command_type |-> command_type,
      reason_code |-> "INVALID_STATE_TRANSITION",
      reason_message |-> "Invalid state transition: " \o current_state
                         \o " -> " \o attempted_transition,
      rejected_at |-> DateAt(t),
      correlation_id |-> correlation_id,
      metadata |-> [ current_state |-> current_state,
                     attempted_transition |-> attempted_transition ] ]

(***************************************************************************)
(* CommandHandler.                                                         *)
(***************************************************************************)
Invocations == {"h1", "h2"}

\* the Commands submitted; correlation_id is optional
Commands ==
    { [command_id |-> "cmd-1", command_type |-> "TestCommand"],
      [command_id |-> "cmd-2", command_type |-> "TestCommand",
       correlation_id |-> "corr-001"] }

\* the messages of the Errors validate throws
ValidateErrors == {"validation: Missing command_id"}
\* the messages of the Errors execute throws
ExecuteErrors == {"Business rule violation: limit exceeded", "insufficient funds"}

\* faulty variant: the command's correlation_id is not passed on
correlationOfDropped(command) == Undefined

\* const { ..., correlation_id } = command
correlationOf(command) ==
    IF Has(command, "correlation_id") THEN command.correlation_id ELSE Undefined

\* faulty variant: the duplicate check looks for any processed command
passesDuplicateCheckAnyKey(store, command) == DOMAIN store = {}

\* faulty variant: the duplicate check lets every command through
passesDuplicateCheckAlways(store, command) == TRUE

\* step 1 of handle: the command goes on to validate
passesDuplicateCheck(store, command) == ~isProcessed(store, command.command_id)

\* the result handle returns for a detected duplicate
DuplicateResult(rejection_event_id) ==
    [success |-> FALSE, rejection_event_id |-> rejection_event_id,
     reason |-> "Duplicate command"]

\* faulty variant: the success result also carries a rejection_event_id
SuccessResultWithRejectionId(event_id) ==
    [success |-> TRUE, event_id |-> event_id, rejection_event_id |-> event_id]

\* the result handle returns after steps 2 to 4
SuccessResult(event_id) == [success |-> TRUE, event_id |-> event_id]

\* the result handleRejection returns
RejectionResult(rejection_event_id, message) ==
    [success |-> FALSE, rejection_event_id |-> rejection_event_id, reason |-> message]

\* handleRejection: the emitter helper chosen for an Error, as the payload
\* the helper hands to emit
handleRejectionPayload(command, message, t) ==
    IF Includes(message, "validation")
    THEN InvalidSchemaPayload(command.command_id, command.command_type, message,
                              correlationOf(command), t)
    ELSE IF Includes(message, "insufficient funds")
    THEN InsufficientFundsPayload(command.command_id, command.command_type, 0, 0,
                                  correlationOf(command), t)
    ELSE IF Includes(message, "state transition")
    THEN InvalidStateTransitionPayload(command.command_id, command.command_type,
                                       "unknown", "unknown", correlationOf(command), t)
    ELSE BusinessRuleViolationPayload(command.command_id, command.command_type, message,
                                      correlationOf(command), t)

NoCommand == EmptyObject
NoResult == EmptyObject
NoFact == EmptyObject

IdleInvocation ==
    [ pc |-> "idle", command |-> NoCommand, processedBefore |-> FALSE,
      steps |-> <<>>, executed |-> Undefined,
      fact |-> NoFact, result |-> NoResult, error |-> NoError,
      raised |-> NoError ]

InFlight == { i \in Invocations : inv[i].pc = "executing" }

\* invocation i calls an emitter helper and awaits it: emit() runs to its end
\* within the call, so the fact is built, validated and logged here, and the
\* await settles later with the rejection_event_id or with the Error thrown
\* (self is the record of the invocation so far)
Rejecting(i, self, payload, result, steps) ==
    LET out == emit(payload, nextId, now) IN
    /\ nextId' = nextId + 1
    /\ consoleLog' = IF out.threw = NoError THEN Append(consoleLog, out.event)
                     ELSE consoleLog
    /\ inv' = [inv EXCEPT ![i] =
          [self EXCEPT !.pc = "awaitEmit",
                       !.steps = steps,
                       !.fact = out.event,
                       !.result = IF out.threw = NoError
                                  THEN [result EXCEPT !.rejection_event_id = out.event_id]
                                  ELSE NoResult,
                       !.error = out.threw]]

\* the record of an invocation that has just been called with a command
Called(command) ==
    [IdleInvocation EXCEPT !.command = command,
                           !.processedBefore = command.command_id \in succeededSinceClear]

\* faulty variant: validate runs before the duplicate check
handleValidatesFirst(i, command, validateThrows) ==
    /\ inv[i].pc = "idle"
    /\ nextId + Cardinality(InFlight) <= MaxIds
    /\ IF validateThrows # NoError
       THEN Rejecting(i, [Called(command) EXCEPT !.raised = validateThrows],
                handleRejectionPayload(command, validateThrows, now),
                RejectionResult(Undefined, validateThrows),
                <<"validate", "handleRejection">>)
       ELSE IF ~passesDuplicateCheck(processedCommands, command)
       THEN Rejecting(i, Called(command),
                DuplicateCommandPayload(command.command_id, command.command_type,
                                        correlationOf(command), now),
                DuplicateResult(Undefined),
                <<"validate", "isProcessed", "emitDuplicateCommand">>)
       ELSE /\ inv' = [inv EXCEPT ![i] =
                      [Called(command) EXCEPT
                          !.pc = "executing",
                          !.steps = <<"validate", "isProcessed", "execute">>]]
            /\ UNCHANGED <<nextId, consoleLog>>
    /\ UNCHANGED <<processedCommands, now, storeCall, markedSinceClear,
                   succeededSinceClear, cleared>>
    /\ UNCHANGED <<emitterCalls, markedWith, instanceVars, gateVars>>

\* handle(command) up to its first await.  validateThrows is what validate
\* does on this command: the message of the Error it throws, or NoError.
handle(i, command, validateThrows) ==
    /\ inv[i].pc = "idle"
    /\ nextId + Cardinality(InFlight) <= MaxIds
    /\ IF ~passesDuplicateCheck(processedCommands, command)
       THEN Rejecting(i, Called(command),
                DuplicateCommandPayload(command.command_id, command.command_type,
                                        correlationOf(command), now),
                DuplicateResult(Undefined),
                <<"isProcessed", "emitDuplicateCommand">>)
       ELSE IF validateThrows # NoError
       THEN Rejecting(i, [Called(command) EXCEPT !.raised = validateThrows],
                handleRejectionPayload(command, validateThrows, now),
                RejectionResult(Undefined, validateThrows),
                <<"isProcessed", "validate", "handleRejection">>)
       ELSE /\ inv' = [inv EXCEPT ![i] =
                      [Called(command) EXCEPT
                          !.pc = "executing",
                          !.steps = <<"isProcessed", "validate", "execute">>]]
            /\ UNCHANGED <<nextId, consoleLog>>
    /\ UNCHANGED <<processedCommands, now, storeCall, markedSinceClear,
                   succeededSinceClear, cleared>>
    /\ UNCHANGED <<emitterCalls, markedWith, instanceVars, gateVars>>

\* execute has returned event_id to invocation i: handle resumes with step 4,
\* and an Error thrown by markProcessed is caught like one thrown by execute
executeResolves(i, event_id) ==
    LET command == inv[i].command
        marked == markProcessed(processedCommands, command.command_id,
                                command.command_type, event_id, now)
    IN
    /\ inv[i].pc = "executing"
    /\ IF marked.threw = NoError
       THEN /\ processedCommands' = marked.store
            /\ markedSinceClear' = markedSinceClear \cup {command.command_id}
            /\ succeededSinceClear' = succeededSinceClear \cup {command.command_id}
            /\ inv' = [inv EXCEPT ![i].pc = "returned",
                                  ![i].executed = event_id,
                                  ![i].steps = Append(@, "markProcessed"),
                                  ![i].result = SuccessResult(event_id)]
            /\ UNCHANGED <<nextId, consoleLog>>
       ELSE /\ Rejecting(i, [inv[i] EXCEPT !.executed = event_id,
                                            !.raised = marked.threw],
                   handleRejectionPayload(command, marked.threw, now),
                   RejectionResult(Undefined, marked.threw),
                   inv[i].steps \o <<"markProcessed", "handleRejection">>)
            /\ UNCHANGED <<processedCommands, markedSinceClear, succeededSinceClear>>
    /\ UNCHANGED <<now, storeCall, cleared>>
    /\ markedWith' = IF marked.threw = NoError
                     THEN MapSet(markedWith, command.command_id,
                                 [ command_type |-> command.command_type,
                                   result_event_id |-> event_id ])
                     ELSE markedWith
    /\ UNCHANGED <<emitterCalls, instanceVars, gateVars>>

\* faulty variant: the command is marked processed although execute threw
executeRejectsMarks(i, message) ==
    /\ inv[i].pc = "executing"
    /\ Rejecting(i, [inv[i] EXCEPT !.raised = message],
           handleRejectionPayload(inv[i].command, message, now),
           RejectionResult(Undefined, message),
           Append(inv[i].steps, "handleRejection"))
    /\ processedCommands' =
          MapSet(processedCommands, inv[i].command.command_id,
                 [ command_id |-> inv[i].command.command_id,
                   command_type |-> inv[i].command.command_type,
                   processed_at |-> DateAt(now),
                   result_event_id |-> Undefined ])
    /\ markedSinceClear' = markedSinceClear \cup {inv[i].command.command_id}
    /\ UNCHANGED <<now, storeCall, succeededSinceClear, cleared>>
    /\ markedWith' = MapSet(markedWith, inv[i].command.command_id,
                            [ command_type |-> inv[i].command.command_type,
                              result_event_id |-> Undefined ])
    /\ UNCHANGED <<emitterCalls, instanceVars, gateVars>>

\* faulty variant: the catch block also deletes the record of the command
executeRejectsReleases(i, message) ==
    /\ inv[i].pc = "executing"
    /\ Rejecting(i, [inv[i] EXCEPT !.raised = message],
           handleRejectionPayload(inv[i].command, message, now),
           RejectionResult(Undefined, message),
           Append(inv[i].steps, "handleRejection"))
    /\ processedCommands' =
          [k \in DOMAIN processedCommands \ {inv[i].command.command_id} |->
              processedCommands[k]]
    /\ markedSinceClear' = markedSinceClear \ {inv[i].command.command_id}
    /\ UNCHANGED <<now, storeCall, succeededSinceClear, cleared>>
    /\ markedWith' = [k \in DOMAIN markedWith \ {inv[i].command.command_id} |->
                         markedWith[k]]
    /\ UNCHANGED <<emitterCalls, instanceVars, gateVars>>

\* execute has thrown an Error with this message: the catch block runs
\* handleRejection
executeRejects(i, message) ==
    /\ inv[i].pc = "executing"
    /\ Rejecting(i, [inv[i] EXCEPT !.raised = message],
           handleRejectionPayload(inv[i].command, message, now),
           RejectionResult(Undefined, message),
           Append(inv[i].steps, "handleRejection"))
    /\ UNCHANGED <<processedCommands, now, storeCall, markedSinceClear,
                   succeededSinceClear, cleared>>
    /\ UNCHANGED <<emitterCalls, markedWith, instanceVars, gateVars>>

\* faulty variant: the Error emit threw is swallowed and a failure result
\* without rejection_event_id is returned
emitSettlesSwallows(i) ==
    /\ inv[i].pc = "awaitEmit"
    /\ inv' = [inv EXCEPT ![i].pc = "returned",
                          ![i].result = IF inv[i].error = NoError THEN @
                                        ELSE [success |-> FALSE, reason |-> inv[i].error]]
    /\ UNCHANGED <<processedCommands, now, nextId, consoleLog, storeCall,
                   markedSinceClear, succeededSinceClear, cleared>>
    /\ UNCHANGED <<emitterCalls, markedWith, instanceVars, gateVars>>

\* faulty variant: a call resumes from its emitter call only when no other
\* call is waiting for one
emitSettlesInTurn(i) ==
    /\ inv[i].pc = "awaitEmit"
    /\ \A j \in Invocations \ {i} : inv[j].pc # "awaitEmit"
    /\ inv' = [inv EXCEPT ![i].pc = IF inv[i].error = NoError THEN "returned"
                                    ELSE "thrown"]
    /\ UNCHANGED <<processedCommands, now, nextId, consoleLog, storeCall,
                   markedSinceClear, succeededSinceClear, cleared>>
    /\ UNCHANGED <<emitterCalls, markedWith, instanceVars, gateVars>>

\* the awaited emitter call settles: handle returns its failure result, or the
\* Error emit threw leaves handle
emitSettles(i) ==
    /\ inv[i].pc = "awaitEmit"
    /\ inv' = [inv EXCEPT ![i].pc = IF inv[i].error = NoError THEN "returned"
                                    ELSE "thrown"]
    /\ UNCHANGED <<processedCommands, now, nextId, consoleLog, storeCall,
                   markedSinceClear, succeededSinceClear, cleared>>
    /\ UNCHANGED <<emitterCalls, markedWith, instanceVars, gateVars>>

\* the caller has taken the outcome of invocation i and may call handle again
callerTakesOutcome(i) ==
    /\ inv[i].pc \in {"returned", "thrown"}
    /\ inv' = [inv EXCEPT ![i] = IdleInvocation]
    /\ UNCHANGED <<processedCommands, now, nextId, consoleLog, storeCall,
                   markedSinceClear, succeededSinceClear, cleared>>
    /\ UNCHANGED <<emitterCalls, markedWith, instanceVars, gateVars>>

NoStoreCall == EmptyObject

\* a direct call of store.markProcessed, as the store's tests make it
storeMarkProcessed(command_id, command_type, result_event_id) ==
    LET marked == markProcessed(processedCommands, command_id, command_type,
                                result_event_id, now)
    IN
    /\ processedCommands' = marked.store
    /\ storeCall' = [ op |-> "markProcessed", command_id |-> command_id,
                      threw |-> marked.threw, before |-> processedCommands ]
    /\ markedSinceClear' = IF marked.threw = NoError
                           THEN markedSinceClear \cup {command_id}
                           ELSE markedSinceClear
    /\ UNCHANGED <<now, nextId, inv, consoleLog, succeededSinceClear, cleared>>
    /\ markedWith' = IF marked.threw = NoError
                     THEN MapSet(markedWith, command_id,
                                 [ command_type |-> command_type,
                                   result_event_id |-> result_event_id ])
                     ELSE markedWith
    /\ UNCHANGED <<emitterCalls, instanceVars, gateVars>>

\* a direct call of store.isProcessed
storeIsProcessed(command_id) ==
    /\ storeCall' = [ op |-> "isProcessed", command_id |-> command_id,
                      threw |-> NoError, before |-> processedCommands,
                      returned |-> isProcessed(processedCommands, command_id) ]
    /\ UNCHANGED <<processedCommands, now, nextId, inv, consoleLog, markedSinceClear,
                   succeededSinceClear, cleared, emitterCalls, markedWith>>
    /\ UNCHANGED <<instanceVars, gateVars>>

\* a direct call of store.getRecord
storeGetRecord(command_id) ==
    /\ storeCall' = [ op |-> "getRecord", command_id |-> command_id,
                      threw |-> NoError, before |-> processedCommands,
                      returned |-> getRecord(processedCommands, command_id) ]
    /\ UNCHANGED <<processedCommands, now, nextId, inv, consoleLog, markedSinceClear,
                   succeededSinceClear, cleared, emitterCalls, markedWith>>
    /\ UNCHANGED <<instanceVars, gateVars>>

\* a direct call of store.count
storeCount ==
    /\ storeCall' = [ op |-> "count", threw |-> NoError,
                      before |-> processedCommands,
                      returned |-> count(processedCommands) ]
    /\ UNCHANGED <<processedCommands, now, nextId, inv, consoleLog, markedSinceClear,
                   succeededSinceClear, cleared, emitterCalls, markedWith>>
    /\ UNCHANGED <<instanceVars, gateVars>>

\* store.clear()
clear ==
    /\ processedCommands' = clearStore(processedCommands)
    /\ storeCall' = [op |-> "clear", threw |-> NoError]
    /\ markedSinceClear' = {}
    /\ succeededSinceClear' = {}
    /\ cleared' = TRUE
    /\ UNCHANGED <<now, nextId, inv, consoleLog>>
    /\ markedWith' = EmptyStore
    /\ UNCHANGED <<emitterCalls, instanceVars, gateVars>>

\* time passes
tick ==
    /\ now < MaxClock
    /\ now' = now + 1
    /\ UNCHANGED <<processedCommands, nextId, inv, consoleLog, storeCall,
                   markedSinceClear, succeededSinceClear, cleared>>
    /\ UNCHANGED <<emitterCalls, markedWith, instanceVars, gateVars>>

\* the correlation ids a caller of the emitter may pass
CorrelationIds == {Undefined, "", "corr-001"}

\* a helper of the emitter called directly, as the emitter's tests call it:
\* it hands its payload to emit(), which runs to its end within the call
DirectEmit(helper, payload) ==
    LET out == emit(payload, nextId, now) IN
    /\ nextId <= MaxIds
    /\ nextId' = nextId + 1
    /\ consoleLog' = IF out.threw = NoError THEN Append(consoleLog, out.event)
                     ELSE consoleLog
    /\ emitterCalls' = Append(emitterCalls,
          [ helper |-> helper, payload |-> payload, event |-> out.event,
            threw |-> out.threw,
            returned |-> IF out.threw = NoError THEN out.event_id ELSE Undefined ])
    /\ UNCHANGED <<processedCommands, now, inv, storeCall, markedSinceClear,
                   succeededSinceClear, cleared, markedWith>>
    /\ UNCHANGED <<instanceVars, gateVars>>

emitDuplicateCommand(command_id, command_type, correlation_id) ==
    DirectEmit("emitDuplicateCommand",
        DuplicateCommandPayload(command_id, command_type, correlation_id, now))

emitInvalidSchema(command_id, command_type, validation_error, correlation_id) ==
    DirectEmit("emitInvalidSchema",
        InvalidSchemaPayload(command_id, command_type, validation_error,
                             correlation_id, now))

emitBusinessRuleViolation(command_id, command_type, rule_violation, correlation_id) ==
    DirectEmit("emitBusinessRuleViolation",
        BusinessRuleViolationPayload(command_id, command_type, rule_violation,
                                     correlation_id, now))

emitInsufficientFunds(command_id, command_type, required_amount, available_amount, correlation_id) ==
    DirectEmit("emitInsufficientFunds",
        InsufficientFundsPayload(command_id, command_type, required_amount,
                                 available_amount, correlation_id, now))

emitInvalidStateTransition(command_id, command_type, current_state, attempted_transition, correlation_id) ==
    DirectEmit("emitInvalidStateTransition",
        InvalidStateTransitionPayload(command_id, command_type, current_state,
                                      attempted_transition, correlation_id, now))

\* the helpers of CommandRejectedEmitter, called as its tests call them
EmitterNext ==
    \/ \E command_id \in CommandIds, correlation_id \in CorrelationIds :
            emitDuplicateCommand(command_id, "InitiatePayment", correlation_id)
    \/ \E command_id \in CommandIds, correlation_id \in CorrelationIds :
            emitInvalidSchema(command_id, "InitiatePayment",
                              "Missing required field: amount", correlation_id)
    \/ \E command_id \in CommandIds, correlation_id \in CorrelationIds :
            emitBusinessRuleViolation(command_id, "InitiatePayment",
                                      "Payment amount exceeds daily limit", correlation_id)
    \/ \E command_id \in CommandIds, correlation_id \in CorrelationIds :
            emitInsufficientFunds(command_id, "InitiatePayment", 1000, 500, correlation_id)
    \/ \E command_id \in CommandIds, correlation_id \in CorrelationIds :
            emitInvalidStateTransition(command_id, "InitiatePayment", "Settled",
                                       "Initiate", correlation_id)
    \/ tick

\* the messages of the Errors execute throws, one for each branch of
\* handleRejection that an Error of execute can take
ClassifiedErrors == ExecuteErrors \cup {"Invalid state transition: Settled -> Initiate"}

\* the Commands submitted, and one whose correlation_id is the empty string
SubmittedCommands ==
    Commands \cup { [command_id |-> "cmd-1", command_type |-> "TestCommand",
                     correlation_id |-> ""] }

\* handle() calls on a store that is never cleared, the clock standing still
CallsNext ==
    \/ \E i \in Invocations, command \in SubmittedCommands,
          validateThrows \in {NoError} \cup ValidateErrors :
            handle(i, command, validateThrows)
    \/ \E i \in Invocations, event_id \in DomainEventIds : executeResolves(i, event_id)
    \/ \E i \in Invocations, message \in ClassifiedErrors : executeRejects(i, message)
    \/ \E i \in Invocations : emitSettles(i)
    \/ \E i \in Invocations : callerTakesOutcome(i)

\* the store objects created by new CommandIdempotencyStore(), by number
StoreRef(n) == "store-" \o ToString(n)

\* faulty variant: every call creates a store of its own
getCommandIdempotencyStoreFresh(g, created) ==
    [ globalStore |-> StoreRef(created + 1), returned |-> StoreRef(created + 1) ]

\* getCommandIdempotencyStore(): the store is created on the first call
\* (created counts the stores made so far) and returned on every call
getCommandIdempotencyStore(g, created) ==
    LET store == IF g = Null THEN StoreRef(created + 1) ELSE g IN
    [ globalStore |-> store, returned |-> store ]

\* the handler instances constructed so far
Constructed == { i \in Invocations : idempotencyStore[i] # Null }

\* new TestCommandHandler(): the constructor of CommandHandler fetches the
\* global store for instance i
newCommandHandler(i) ==
    LET got == getCommandIdempotencyStore(globalStore, Cardinality(Constructed)) IN
    /\ idempotencyStore[i] = Null
    /\ globalStore' = got.globalStore
    /\ idempotencyStore' = [idempotencyStore EXCEPT ![i] = got.returned]
    /\ UNCHANGED <<processedCommands, now, nextId, inv, consoleLog, storeCall,
                   markedSinceClear, succeededSinceClear, cleared, emitterCalls,
                   markedWith>>
    /\ UNCHANGED gateVars

\* handler.handle(command) on the handler instance i, once it is constructed
handleOnInstance(i, command, validateThrows) ==
    /\ idempotencyStore[i] # Null
    /\ handle(i, command, validateThrows)

\* the Commands submitted, and one that reuses a command_id under another
\* command_type
TypedCommands ==
    Commands \cup { [command_id |-> "cmd-1", command_type |-> "InitiatePayment"] }

\* handler instances constructed one by one, and handle() called on them
InstancesNext ==
    \/ \E i \in Invocations : newCommandHandler(i)
    \/ \E i \in Invocations, command \in TypedCommands,
          validateThrows \in {NoError} \cup ValidateErrors :
            handleOnInstance(i, command, validateThrows)
    \/ \E i \in Invocations, event_id \in DomainEventIds : executeResolves(i, event_id)
    \/ \E i \in Invocations, message \in ExecuteErrors : executeRejects(i, message)
    \/ \E i \in Invocations : emitSettles(i)
    \/ \E i \in Invocations : callerTakesOutcome(i)

\* the store, the emitter and the call slots before any call
HandlerStateInit ==
    /\ processedCommands = EmptyStore
    /\ now = 0
    /\ nextId = 1
    /\ inv = [i \in Invocations |-> IdleInvocation]
    /\ consoleLog = <<>>
    /\ storeCall = NoStoreCall
    /\ markedSinceClear = {}
    /\ succeededSinceClear = {}
    /\ cleared = FALSE
    /\ emitterCalls = <<>>
    /\ markedWith = EmptyStore

\* the state once the handler instances are constructed: all hold the one
\* store getCommandIdempotencyStore() created
HandlerInit ==
    /\ HandlerStateInit
    /\ globalStore = StoreRef(1)
    /\ idempotencyStore = [i \in Invocations |-> StoreRef(1)]

\* the state when the modules are loaded: no store, no handler instance yet
InstancesInit ==
    /\ HandlerStateInit
    /\ globalStore = Null
    /\ idempotencyStore = [i \in Invocations |-> Null]
    /\ publisher = NoPublisher
    /\ publishCalls = <<>>
    /\ delivered = <<>>
    /\ gate = [c \in GateCallers |-> IdleCall]
    /\ names = NoNames

HandlerNext ==
    \/ \E i \in Invocations, command \in Commands,
          validateThrows \in {NoError} \cup ValidateErrors :
            handle(i, command, validateThrows)
    \/ \E i \in Invocations, event_id \in DomainEventIds : executeResolves(i, event_id)
    \/ \E i \in Invocations, message \in ExecuteErrors : executeRejects(i, message)
    \/ \E i \in Invocations : emitSettles(i)
    \/ \E i \in Invocations : callerTakesOutcome(i)
    \/ clear
    \/ tick

\* handle() calls, and the store's markProcessed called beside them
MixedNext ==
    \/ \E i \in Invocations, command \in Commands,
          validateThrows \in {NoError} \cup ValidateErrors :
            handle(i, command, validateThrows)
    \/ \E i \in Invocations, event_id \in DomainEventIds : executeResolves(i, event_id)
    \/ \E i \in Invocations, message \in ExecuteErrors : executeRejects(i, message)
    \/ \E i \in Invocations : emitSettles(i)
    \/ \E i \in Invocations : callerTakesOutcome(i)
    \/ \E command_id \in CommandIds :
            storeMarkProcessed(command_id, "InitiatePayment", "evt-001")
    \/ clear

\* handle() calls with a publisher that may be configured
PublishingNext ==
    \/ HandlerNext
    \/ \E impl \in Publishers : setPublisher(impl)

StoreNext ==
    \/ \E command_id \in CommandIds, command_type \in CommandTypes,
          result_event_id \in {Undefined, "evt-001"} :
            storeMarkProcessed(command_id, command_type, result_event_id)
    \/ \E command_id \in CommandIds : storeIsProcessed(command_id)
    \/ \E command_id \in CommandIds : storeGetRecord(command_id)
    \/ storeCount
    \/ clear
    \/ tick

(***************************************************************************)
(* Specifications.                                                         *)
(***************************************************************************)
Init == HandlerInit /\ GateInit

\* the command handler, its store and its emitter
Next == HandlerNext
Spec == Init /\ [][Next]_vars

\* the idempotency store, called directly
SpecStore == Init /\ [][StoreNext]_vars

\* the emission guard
SpecGate == Init /\ [][GateNext]_vars

\* the command handler and direct calls of its store
SpecMixed == Init /\ [][MixedNext]_vars

\* the command handler beside a configured publisher
SpecPublishing == Init /\ [][PublishingNext]_vars

\* the emitter's helpers called directly
SpecEmitter == Init /\ [][EmitterNext]_vars

\* handler instances constructed and used
SpecInstances == InstancesInit /\ [][InstancesNext]_vars

\* the awaited execute of invocation i settles, one way or the other
executeSettles(i) ==
    \/ \E event_id \in DomainEventIds : executeResolves(i, event_id)
    \/ \E message \in ExecuteErrors : executeRejects(i, message)

\* handle() calls of the Commands and the settling of their awaits
TerminatingNext ==
    \/ \E i \in Invocations, command \in Commands,
          validateThrows \in {NoError} \cup ValidateErrors :
            handle(i, command, validateThrows)
    \/ \E i \in Invocations : executeSettles(i)
    \/ \E i \in Invocations : emitSettles(i)
    \/ \E i \in Invocations : callerTakesOutcome(i)

\* execute and the rejection emission terminate: a promise handle() awaits
\* is settled in the end, and the event loop then resumes the call
AwaitsSettle ==
    \A i \in Invocations :
        /\ WF_vars(executeSettles(i))
        /\ WF_vars(emitSettles(i))

\* the command handler alone, with execute and the emitter terminating
SpecTerminating == Init /\ [][TerminatingNext]_vars /\ AwaitsSettle

\* the command handler alone
SpecCalls == Init /\ [][CallsNext]_vars

\* the name transform, applied to each file the schemas directory may hold
InitNames ==
    /\ HandlerInit
    /\ publisher = NoPublisher
    /\ publishCalls = <<>>
    /\ delivered = <<>>
    /\ gate = [c \in GateCallers |-> IdleCall]
    /\ names \in { [NoNames EXCEPT !.pc = "registered", !.file = f] : f \in CandidateFiles }

SpecNames == InitNames /\ [][NamesNext]_vars

(***************************************************************************)
(* Properties.                                                             *)
(***************************************************************************)
Finished(i) == inv[i].pc \in {"returned", "thrown"}
Succeeded(i) == inv[i].pc = "returned" /\ inv[i].result.success
CommandIdOf(i) == inv[i].command.command_id
HasFact(r) == Has(r.fact, "payload")
ReasonCodeOf(r) == r.fact.payload.reason_code

\* the events of EmitEventInputs that the registered schemas accept
ValidInputs == {SettledValid, InitiatedValid}

IsValidationError(message) ==
    \/ Includes(message, "Event must be an object")
    \/ Includes(message, "missing event_type")
    \/ Includes(message, "No schema registered")
    \/ Includes(message, "Schema violation")

DeliveredBy(c) == SelectSeq(delivered, LAMBDA e : e.by = c)
PublishCallsBy(c) == SelectSeq(publishCalls, LAMBDA e : e.by = c)

\* C1: with no clear(), execute completes successfully at most once per
\* command_id: no two handle() invocations of one command_id have both had
\* their execute return.
C1_ExecuteAtMostOnce ==
    ~cleared =>
        \A i, j \in Invocations :
            (i # j /\ inv[i].executed # Undefined /\ inv[j].executed # Undefined)
                => CommandIdOf(i) # CommandIdOf(j)

\* C2: when two handle() calls of one command_id ran concurrently and execute
\* succeeded in both, one of them returns success=true and the other returns
\* success=false with reason 'Duplicate command' and a rejection fact whose
\* reason_code is DUPLICATE_COMMAND.
C2_ConcurrentCallResolvesAsDuplicate ==
    ~cleared =>
        \A i, j \in Invocations :
            ( /\ i # j
              /\ Finished(i) /\ Finished(j)
              /\ inv[i].executed # Undefined /\ inv[j].executed # Undefined
              /\ CommandIdOf(i) = CommandIdOf(j) )
            => /\ Succeeded(i) \/ Succeeded(j)
               /\ Succeeded(i) =>
                     /\ inv[j].pc = "returned"
                     /\ ~inv[j].result.success
                     /\ inv[j].result.reason = "Duplicate command"
                     /\ HasFact(inv[j])
                     /\ ReasonCodeOf(inv[j]) = "DUPLICATE_COMMAND"

\* C3: a handle() call for a command_id that an earlier handle() processed
\* successfully returns success=false with reason 'Duplicate command' and a
\* defined rejection_event_id, and calls neither validate nor execute.
C3_DuplicateIsRejected ==
    \A i \in Invocations :
        (Finished(i) /\ inv[i].processedBefore)
            => /\ inv[i].pc = "returned"
               /\ ~inv[i].result.success
               /\ inv[i].result.reason = "Duplicate command"
               /\ Has(inv[i].result, "rejection_event_id")
               /\ inv[i].result.rejection_event_id # Undefined
               /\ \A n \in 1..Len(inv[i].steps) :
                     inv[i].steps[n] \notin {"validate", "execute"}

FailedByRaise(r) ==
    /\ r.pc \in {"awaitEmit", "returned", "thrown"}
    /\ r.executed = Undefined
    /\ r.steps[Len(r.steps)] = "handleRejection"

\* C5: no step of a handle() call that fails because validate or execute
\* threw changes the store; a handle() call for a command_id that is not in
\* the store passes the duplicate check and runs validate, and when its
\* execute then returns it returns success=true.
C5_FailureLeavesCommandRetryable ==
    [][ \A i \in Invocations :
          /\ (inv'[i] # inv[i] /\ FailedByRaise(inv'[i]))
                => processedCommands' = processedCommands
          /\ ( /\ inv[i].pc = "idle" /\ inv'[i].pc # "idle"
               /\ inv'[i].command.command_id \notin DOMAIN processedCommands )
                => /\ inv'[i].steps[1] = "isProcessed"
                   /\ inv'[i].steps[2] = "validate"
          /\ ( /\ inv[i].pc = "executing" /\ inv'[i].executed # Undefined
               /\ CommandIdOf(i) \notin DOMAIN processedCommands )
                => /\ inv'[i].pc = "returned"
                   /\ inv'[i].result.success
      ]_vars

\* a call failed in validate, which it reached because the command_id was not
\* in the store, and a call for the same command_id has returned success
C5_Witness ==
    /\ ~cleared
    /\ \E i, j \in Invocations :
          /\ i # j
          /\ inv[j].pc = "thrown"
          /\ inv[j].steps = <<"isProcessed", "validate", "handleRejection">>
          /\ Succeeded(i)
          /\ CommandIdOf(i) = CommandIdOf(j)

\* C6: the store holds exactly the ids marked processed since it was created
\* or last cleared; a handle() call for an id not among them passes the
\* duplicate check and goes on to validate; and a DUPLICATE_COMMAND rejection
\* is built only by the duplicate check, for an id whose record is in the
\* store at that moment.
C6_DuplicateOnlyWhenRecorded ==
    [][ /\ DOMAIN processedCommands = markedSinceClear
        /\ \A i \in Invocations :
              /\ ( /\ inv[i].pc = "idle" /\ inv'[i].pc # "idle"
                   /\ inv'[i].command.command_id \notin markedSinceClear )
                    => /\ inv'[i].steps[1] = "isProcessed"
                       /\ inv'[i].steps[2] = "validate"
              /\ ( /\ inv'[i] # inv[i]
                   /\ HasFact(inv'[i])
                   /\ ReasonCodeOf(inv'[i]) = "DUPLICATE_COMMAND" )
                    => \/ inv'[i].fact = inv[i].fact
                       \/ /\ inv[i].pc = "idle"
                          /\ inv'[i].command.command_id \in DOMAIN processedCommands
      ]_vars

C6_Witness ==
    \E i, j \in Invocations :
        /\ HasFact(inv[i])
        /\ ReasonCodeOf(inv[i]) = "DUPLICATE_COMMAND"
        /\ inv[j].pc = "executing"
        /\ CommandIdOf(j) \notin markedSinceClear

\* C7: markProcessed on a command_id that is already in the store throws an
\* 'already processed' Error and leaves the store, with the existing record
\* and the count, as it was.
C7_MarkProcessedTwiceFails ==
    ( /\ Has(storeCall, "op")
      /\ storeCall.op = "markProcessed"
      /\ storeCall.command_id \in DOMAIN storeCall.before )
    => /\ Includes(storeCall.threw, "already processed")
       /\ processedCommands = storeCall.before
       /\ processedCommands[storeCall.command_id] = storeCall.before[storeCall.command_id]
       /\ Cardinality(DOMAIN processedCommands) = Cardinality(DOMAIN storeCall.before)

C7_Witness ==
    /\ Has(storeCall, "op")
    /\ storeCall.op = "markProcessed"
    /\ storeCall.command_id \in DOMAIN storeCall.before
    /\ Includes(storeCall.threw, "already processed")
    /\ now > 0

\* C8: publisher.publish is called only with events that pass validateEvent:
\* an event without event_type, of an unregistered type or violating its
\* schema is never handed to the publisher.
C8_OnlyValidEventsPublished ==
    /\ \A n \in 1..Len(publishCalls) : publishCalls[n].event \in ValidInputs
    /\ \A c \in GateCallers :
          ( /\ gate[c].pc = "thrown"
            /\ gate[c].events[gate[c].idx] \notin ValidInputs )
          => /\ IsValidationError(gate[c].error)
             /\ \A n \in 1..Len(publishCalls) :
                   ~(publishCalls[n].by = c /\ publishCalls[n].pos = gate[c].idx)

C8_Witness ==
    /\ publisher # NoPublisher
    /\ gate["emitEvent"].pc = "thrown"
    /\ Includes(gate["emitEvent"].error, "Schema violation")
    /\ gate["emitEvents"].pc = "thrown"
    /\ Includes(gate["emitEvents"].error, "missing event_type")
    /\ Len(publishCalls) > 0

\* C9: while no publisher is configured nothing is published, emitEvent on a
\* schema-valid event throws the configuration error, and emitEvent on an
\* invalid event throws its validation error, not the configuration error.
C9_NoPublisherConfigured ==
    publisher = NoPublisher =>
        /\ publishCalls = <<>>
        /\ \A c \in GateCallers :
              (gate[c].pc # "idle" /\ gate[c].events # <<>>)
              => /\ gate[c].pc = "thrown"
                 /\ IF gate[c].events[gate[c].idx] \in ValidInputs
                    THEN gate[c].error = NotConfigured
                    ELSE /\ gate[c].error # NotConfigured
                         /\ IsValidationError(gate[c].error)

C9_Witness ==
    /\ publisher = NoPublisher
    /\ gate["emitEvent"].pc = "thrown"
    /\ gate["emitEvent"].events[1] \in ValidInputs
    /\ gate["emitEvent"].error = NotConfigured
    /\ gate["emitEvents"].pc = "thrown"
    /\ gate["emitEvents"].events[1] \notin ValidInputs
    /\ IsValidationError(gate["emitEvents"].error)

\* C10: emitEvents hands the events of its batch to the publisher in their
\* order and stops at the first failure: when the k-th event is the first to
\* fail, the events published are exactly the first k-1, in order, and in no
\* later state is one of them withdrawn or an event from position k on
\* published.
C10_BatchStopsAtFirstFailure ==
    LET b == gate["emitEvents"]
        D == DeliveredBy("emitEvents")
        P == PublishCallsBy("emitEvents")
    IN
    /\ \A n \in 1..Len(D) : D[n].pos = n /\ D[n].event = b.events[n]
    /\ \A n \in 1..Len(P) : P[n].pos = n /\ P[n].event = b.events[n]
    /\ b.pc = "awaitPublish" => (Len(D) = b.idx - 1 /\ Len(P) = b.idx)
    /\ b.pc = "returned" => (Len(D) = Len(b.events) /\ Len(P) = Len(b.events))
    /\ b.pc = "thrown" =>
          /\ Len(D) = b.idx - 1
          /\ Len(P) = IF b.error = PublishFailed THEN b.idx ELSE b.idx - 1
          /\ \A n \in 1..(b.idx - 1) : b.events[n] \in ValidInputs
          /\ IsValidationError(b.error) <=> b.events[b.idx] \notin ValidInputs

C10_Witness ==
    /\ gate["emitEvents"].pc = "thrown"
    /\ gate["emitEvents"].idx = 2
    /\ Len(gate["emitEvents"].events) = 2
    /\ Len(DeliveredBy("emitEvents")) = 1
    /\ Len(PublishCallsBy("emitEvents")) = 1

(***************************************************************************)
(* The kinds of validation failure.                                        *)
(***************************************************************************)
\* the offered events whose event_type has no registered schema
UnregisteredInputs == {UnsupportedType, UnsupportedMissingEventId}

\* the offered events of a registered type that their schema rejects
SchemaViolatingInputs ==
    { SettledMissingPosting, SettledNegativeAmount, InitiatedInvalidRail,
      SettledMissingEventId }

\* the event a caller of the gate is at
CurrentEvent(c) == gate[c].events[gate[c].idx]

\* C11: emitting an event whose event_type has no registered schema throws an
\* error containing 'No schema registered' and not 'Schema violation', and
\* emitting an event of a registered type that fails its schema throws an
\* error containing 'Schema violation'.
C11_UnregisteredBeforeSchemaViolation ==
    \A c \in GateCallers :
        (gate[c].pc # "idle" /\ gate[c].events # <<>>) =>
            /\ CurrentEvent(c) \in UnregisteredInputs =>
                  /\ gate[c].pc = "thrown"
                  /\ Includes(gate[c].error, "No schema registered")
                  /\ ~Includes(gate[c].error, "Schema violation")
            /\ CurrentEvent(c) \in SchemaViolatingInputs =>
                  /\ gate[c].pc = "thrown"
                  /\ Includes(gate[c].error, "Schema violation")

C11_Witness ==
    /\ gate["emitEvent"].pc = "thrown"
    /\ gate["emitEvent"].events = <<UnsupportedType>>
    /\ Includes(gate["emitEvent"].error, "No schema registered")
    /\ gate["emitEvents"].pc = "thrown"
    /\ CurrentEvent("emitEvents") = SettledMissingPosting
    /\ Includes(gate["emitEvents"].error, "Schema violation")

\* the errors validateEvent raises for a malformed envelope
IsMalformedEnvelopeError(message) ==
    message \in {"Event must be an object", "Event missing event_type field"}

\* C12: an event that lacks a required field of the envelope fails as a
\* malformed envelope, whatever its payload and its event_type: it is neither
\* accepted nor reported as a schema violation or under another kind of error.
C12_EnvelopeCheckedFirst ==
    \A c \in GateCallers :
        ( /\ gate[c].pc # "idle" /\ gate[c].events # <<>>
          /\ IsObject(CurrentEvent(c))
          /\ ~HasEnvelope(CurrentEvent(c)) )
        => /\ gate[c].pc = "thrown"
           /\ IsMalformedEnvelopeError(gate[c].error)

\* C13: the event type that getSupportedEventTypes derives from a schema
\* file is mapped by validateEvent back to the name of that file, and reading
\* the snake_case form of the type as an event type gives the type again.
C13_NameTransformRoundTrips ==
    names.pc = "mapped" =>
        /\ names.schemaName = names.file
        /\ names.typeAgain = names.type

C13_Witness ==
    /\ names.pc = "mapped"
    /\ names.file = "payment_settled.v1.json"
    /\ names.type = "PaymentSettled"
    /\ names.schemaName = "payment_settled.v1.json"

(***************************************************************************)
(* Results and rejection facts of handle().                                *)
(***************************************************************************)
Defined(r, field) == Has(r, field) /\ r[field] # Undefined

FactsEmitted(command_id, event_id) ==
    { n \in 1..Len(consoleLog) :
        /\ consoleLog[n].payload.command_id = command_id
        /\ consoleLog[n].event_id = event_id }

\* C15: commands never fail silently: a handle() call that has not succeeded
\* ends by returning success=false, having emitted exactly one CommandRejected
\* fact for its command_id, whose event_id is the returned rejection_event_id.
C15_RejectionEmitsOneFact ==
    \A i \in Invocations :
        (Finished(i) /\ ~Succeeded(i)) =>
            /\ inv[i].pc = "returned"
            /\ ~inv[i].result.success
            /\ Cardinality(FactsEmitted(CommandIdOf(i),
                                        inv[i].result.rejection_event_id)) = 1

\* C16: a handle() call in which validate or execute raised an error ends by
\* returning a CommandResult with success=false, not by throwing.
C16_ErrorsBecomeResults ==
    \A i \in Invocations :
        (Finished(i) /\ FailedByRaise(inv[i])) =>
            /\ inv[i].pc = "returned"
            /\ Has(inv[i].result, "success")
            /\ ~inv[i].result.success

\* C17: when a handle() call that rejected its command has ended, the
\* CommandRejected fact it built has been passed to publisher.publish of the
\* configured publisher.
C17_RejectionFactIsPublished ==
    \A i \in Invocations :
        (Finished(i) /\ HasFact(inv[i]) /\ publisher # NoPublisher) =>
            \E n \in 1..Len(publishCalls) : publishCalls[n].event = inv[i].fact

\* the steps of a handle() call that found its command_id in the store
DuplicatePath == <<"isProcessed", "emitDuplicateCommand">>

\* C18: a handle() call for a command_id that is in the store takes the
\* duplicate path, on which execute is not run, and no step of that call
\* changes the store: the records and their count stay as they were.
C18_DuplicateLeavesStateAlone ==
    [][ \A i \in Invocations :
          /\ ( /\ inv[i].pc = "idle" /\ inv'[i].pc # "idle"
               /\ inv'[i].command.command_id \in DOMAIN processedCommands )
                => /\ inv'[i].steps = DuplicatePath
                   /\ inv'[i].executed = Undefined
                   /\ inv'[i].pc = "awaitEmit"
          /\ ( /\ inv'[i] # inv[i]
               /\ inv'[i].pc # "idle"
               /\ inv'[i].steps = DuplicatePath )
                => /\ processedCommands' = processedCommands
                   /\ count(processedCommands') = count(processedCommands)
                   /\ inv'[i].executed = Undefined
                   /\ inv'[i].steps = DuplicatePath
      ]_vars

C18_Witness ==
    \E i \in Invocations :
        /\ Finished(i)
        /\ inv[i].steps = DuplicatePath
        /\ CommandIdOf(i) \in DOMAIN processedCommands
        /\ processedCommands[CommandIdOf(i)].result_event_id = "evt-success"

\* C19: as long as clear() has not been called, a record that is in the
\* store stays in it unchanged over every step of handle() and every call of
\* markProcessed: isProcessed never goes back to false and the
\* result_event_id of the record never changes.
C19_RecordsArePermanent ==
    [][ ~cleared' =>
          \A id \in DOMAIN processedCommands :
              /\ isProcessed(processedCommands', id)
              /\ processedCommands'[id] = processedCommands[id]
      ]_vars

\* a record made by handle() has survived a direct markProcessed and the
\* markProcessed of a concurrent handle() for the same command_id
C19_Witness ==
    /\ ~cleared
    /\ Has(storeCall, "op")
    /\ storeCall.op = "markProcessed"
    /\ Includes(storeCall.threw, "already processed")
    /\ \E i \in Invocations :
          /\ inv[i].pc = "thrown"
          /\ inv[i].executed # Undefined
          /\ CommandIdOf(i) = storeCall.command_id
          /\ processedCommands[CommandIdOf(i)].result_event_id \in DomainEventIds

\* C20: an error thrown while a rejection fact is emitted is not caught: the
\* call in which it was thrown ends by throwing it, returns no CommandResult,
\* and neither the step that emits nor the step that throws changes the store.
C20_EmitErrorPropagates ==
    [][ \A i \in Invocations :
          /\ ( /\ inv'[i] # inv[i]
               /\ inv'[i].pc = "awaitEmit"
               /\ inv'[i].error # NoError )
                => /\ processedCommands' = processedCommands
                   /\ inv'[i].result = NoResult
          /\ ( /\ inv[i].pc = "awaitEmit"
               /\ inv[i].error # NoError
               /\ inv'[i] # inv[i] )
                => /\ inv'[i].pc = "thrown"
                   /\ inv'[i].error = inv[i].error
                   /\ inv'[i].result = NoResult
                   /\ processedCommands' = processedCommands
      ]_vars

C20_Witness ==
    \E i, j \in Invocations :
        /\ inv[i].pc = "thrown"
        /\ inv[i].steps = DuplicatePath
        /\ Includes(inv[i].error, "No schema registered")
        /\ inv[j].pc = "thrown"
        /\ inv[j].steps = <<"isProcessed", "validate", "handleRejection">>
        /\ Includes(inv[j].error, "No schema registered")

\* the records of the helpers called directly so far
EmitterCallsMade == { emitterCalls[n] : n \in 1..Len(emitterCalls) }

\* C21: every CommandRejected fact a helper of the emitter builds passes the
\* validation gate: each helper called returns a non-empty event_id and
\* raises nothing.
C21_HelperFactsPassGate ==
    \A c \in EmitterCallsMade :
        /\ validateEvent(c.event) = NoError
        /\ c.threw = NoError
        /\ c.returned # Undefined
        /\ c.returned # ""
\* the reason code the classification assigns to an Error message
ExpectedReasonCode(message) ==
    IF Includes(message, "validation") THEN "INVALID_SCHEMA"
    ELSE IF Includes(message, "insufficient funds") THEN "INSUFFICIENT_FUNDS"
    ELSE IF Includes(message, "state transition") THEN "INVALID_STATE_TRANSITION"
    ELSE "BUSINESS_RULE_VIOLATION"

\* C22: a handle() call in which validate or execute raised an Error ends with
\* a fact whose reason_code is the one the classification assigns to the
\* Error's message, and returns a failure result whose reason is that message.
C22_ErrorsAreClassified ==
    \A i \in Invocations :
        (Finished(i) /\ inv[i].raised # NoError)
            => /\ HasFact(inv[i])
               /\ ReasonCodeOf(inv[i]) = ExpectedReasonCode(inv[i].raised)
               /\ inv[i].pc = "returned"
               /\ ~inv[i].result.success
               /\ inv[i].result.reason = inv[i].raised
\* the steps of a handle() call along each path of the state machine
\* RECEIVED -> {DUPLICATE | VALIDATING} -> {REJECTED | EXECUTING}
\*          -> {PROCESSED | REJECTED}
StateMachinePaths ==
    { <<>>,
      <<"isProcessed", "emitDuplicateCommand">>,
      <<"isProcessed", "validate", "handleRejection">>,
      <<"isProcessed", "validate", "execute">>,
      <<"isProcessed", "validate", "execute", "markProcessed">>,
      <<"isProcessed", "validate", "execute", "handleRejection">>,
      <<"isProcessed", "validate", "execute", "markProcessed", "handleRejection">> }

StepsTaken(r) == { r.steps[n] : n \in 1..Len(r.steps) }

IsPrefix(a, b) == Len(a) <= Len(b) /\ SubSeq(b, 1, Len(a)) = a

\* C23: the steps of a handle() call follow the state machine: validate runs
\* exactly when the duplicate check let the command through, execute is
\* invoked only when validate raised nothing, markProcessed is called only
\* once execute has returned an event_id, the steps taken only ever extend,
\* and no step is taken twice.
C23_StepsFollowStateMachine ==
    [][ \A i \in Invocations :
          /\ inv'[i].steps \in StateMachinePaths
          /\ \A m, n \in 1..Len(inv'[i].steps) :
                inv'[i].steps[m] = inv'[i].steps[n] => m = n
          /\ (inv[i].pc = "idle" /\ inv'[i].pc # "idle")
                => /\ "isProcessed" \in StepsTaken(inv'[i])
                   /\ "validate" \in StepsTaken(inv'[i])
                         <=> inv'[i].command.command_id \notin DOMAIN processedCommands
                   /\ "execute" \in StepsTaken(inv'[i])
                         <=> /\ "validate" \in StepsTaken(inv'[i])
                             /\ inv'[i].raised = NoError
          /\ ("markProcessed" \in StepsTaken(inv'[i]) \ StepsTaken(inv[i]))
                => /\ inv[i].pc = "executing"
                   /\ inv'[i].executed \in DomainEventIds
          /\ inv[i].pc # "idle" /\ inv'[i].pc # "idle"
                => IsPrefix(inv[i].steps, inv'[i].steps)
      ]_vars

\* one call has gone all the way to PROCESSED, a later call of the same
\* command has ended as DUPLICATE
C23_Witness ==
    \E i, j \in Invocations :
        /\ Succeeded(i)
        /\ inv[i].steps = <<"isProcessed", "validate", "execute", "markProcessed">>
        /\ Finished(j)
        /\ CommandIdOf(j) = CommandIdOf(i)
        /\ inv[j].steps = <<"isProcessed", "emitDuplicateCommand">>
\* invocation i has started execute for this command_id and has gone no
\* further: markProcessed has not run for it
InterruptedMidExecute(i, command_id) ==
    /\ inv[i].pc = "executing"
    /\ CommandIdOf(i) = command_id
    /\ command_id \notin DOMAIN processedCommands

\* C24: a handle() call for a command_id whose earlier handle() started
\* execute and never reached markProcessed does not invoke execute again: it
\* is rejected with an 'inconclusive, retry later' outcome.
C24_RetryOfInterruptedIsInconclusive ==
    [][ \A j \in Invocations :
          ( /\ inv[j].pc = "idle"
            /\ inv'[j].pc # "idle"
            /\ \E i \in Invocations \ {j} :
                  InterruptedMidExecute(i, inv'[j].command.command_id) )
          => /\ "execute" \notin StepsTaken(inv'[j])
             /\ inv'[j].pc # "executing"
             /\ \/ /\ Has(inv'[j].result, "reason")
                   /\ Includes(inv'[j].result.reason, "inconclusive")
                \/ Includes(inv'[j].error, "inconclusive")
      ]_vars
\* the command carries a correlation_id: the field is present and is not
\* the empty string
SuppliesCorrelationId(command) ==
    Has(command, "correlation_id") /\ Truthy(command.correlation_id)

\* C25: every CommandRejected fact built for a command carries the command's
\* correlation_id when the command supplies one, and the fact's own freshly
\* generated event_id when it supplies none.
C25_CorrelationIdOfFact ==
    \A i \in Invocations :
        HasFact(inv[i])
            => /\ \E n \in 1..MaxIds + 1 : inv[i].fact.event_id = Uuid(n)
               /\ inv[i].fact.correlation_id =
                     IF SuppliesCorrelationId(inv[i].command)
                     THEN inv[i].command.correlation_id
                     ELSE inv[i].fact.event_id

\* one fact built for a command with a correlation_id, one for a command
\* without
C25_Witness ==
    \E i, j \in Invocations :
        /\ HasFact(inv[i]) /\ HasFact(inv[j])
        /\ SuppliesCorrelationId(inv[i].command)
        /\ inv[i].fact.correlation_id = "corr-001"
        /\ ~Has(inv[j].command, "correlation_id")
        /\ inv[j].fact.correlation_id = inv[j].fact.event_id
CanonicalEnvelopeFields ==
    { "event_id", "event_type", "event_version", "occurred_at", "producer",
      "correlation_id", "causation_id", "entity_type", "entity_id", "payload" }
CanonicalPayloadFields ==
    { "command_id", "command_type", "reason_code", "reason_message",
      "rejected_at", "correlation_id", "metadata" }

\* C27: every CommandRejected fact the emitter builds has the canonical Event
\* Envelope shape: exactly the envelope's fields, and a payload holding
\* exactly the CommandRejected payload's fields.
C27_FactHasCanonicalEnvelope ==
    \A c \in EmitterCallsMade :
        /\ DOMAIN c.event = CanonicalEnvelopeFields
        /\ DOMAIN c.event.payload = CanonicalPayloadFields

\* the reason codes of the facts the emitter's helpers build, one per helper
ServedReasons ==
    { DuplicateCommandPayload("cmd-1", "InitiatePayment", Undefined, now).reason_code,
      InvalidSchemaPayload("cmd-1", "InitiatePayment", "Missing required field: amount",
                           Undefined, now).reason_code,
      BusinessRuleViolationPayload("cmd-1", "InitiatePayment",
                                   "Payment amount exceeds daily limit",
                                   Undefined, now).reason_code,
      InsufficientFundsPayload("cmd-1", "InitiatePayment", 1000, 500,
                               Undefined, now).reason_code,
      InvalidStateTransitionPayload("cmd-1", "InitiatePayment", "Settled", "Initiate",
                                    Undefined, now).reason_code }

\* C28: the rejection taxonomy is closed and fully served: the reason_code of
\* every fact built is one of the seven RejectionReason values, and each of
\* the seven values is the reason_code of the facts of some helper of the
\* emitter.
C28_TaxonomyClosedAndServed ==
    /\ \A c \in EmitterCallsMade : c.event.payload.reason_code \in RejectionReason
    /\ \A r \in RejectionReason : r \in ServedReasons
StoreLookups == {"isProcessed", "getRecord", "count"}

\* C29: isProcessed, getRecord and count are pure lookups: a call of any of
\* them leaves the store as it was; getRecord(id) returns a record exactly
\* when isProcessed(id) is true, and that record's command_id is id, with the
\* command_type and the result_event_id that markProcessed was given for id.
C29_LookupsArePure ==
    [][ (Has(storeCall', "op") /\ storeCall'.op \in StoreLookups)
          => /\ processedCommands' = processedCommands
             /\ storeCall'.before = processedCommands
             /\ storeCall'.threw = NoError
             /\ storeCall'.op = "isProcessed"
                   => storeCall'.returned = (storeCall'.command_id \in DOMAIN markedWith)
             /\ storeCall'.op = "count"
                   => storeCall'.returned = Cardinality(DOMAIN markedWith)
             /\ storeCall'.op = "getRecord"
                   => /\ Has(storeCall'.returned, "command_id")
                            <=> isProcessed(processedCommands', storeCall'.command_id)
                      /\ Has(storeCall'.returned, "command_id")
                            => /\ storeCall'.returned.command_id = storeCall'.command_id
                               /\ storeCall'.returned.command_type =
                                     markedWith[storeCall'.command_id].command_type
                               /\ storeCall'.returned.result_event_id =
                                     markedWith[storeCall'.command_id].result_event_id
      ]_vars

\* getRecord has returned the record of one of two processed commands, the
\* one that markProcessed was given 'evt-001' for
C29_Witness ==
    /\ Has(storeCall, "op")
    /\ storeCall.op = "getRecord"
    /\ Has(storeCall.returned, "command_id")
    /\ storeCall.returned.command_type = "InitiatePayment"
    /\ storeCall.returned.result_event_id = "evt-001"
    /\ count(processedCommands) = 2
    /\ processedCommands = storeCall.before
\* C30: count() is the number of distinct command_ids successfully marked
\* processed since the store was created or last cleared, and a markProcessed
\* that throws leaves it as it was; clear() leaves the count at 0 and
\* isProcessed false for every command_id, so that a handle() call for a
\* command_id that is not marked since the last clear(), whatever happened to
\* it before, passes the duplicate check and, when validate raises nothing,
\* invokes execute.
C30_CountAndClear ==
    [][ /\ count(processedCommands') = Cardinality(markedSinceClear')
        /\ ( /\ inv' = inv
             /\ Has(storeCall', "op")
             /\ storeCall'.op = "markProcessed"
             /\ storeCall'.threw # NoError )
           => count(processedCommands') = count(processedCommands)
        /\ \A i \in Invocations :
              ( /\ inv[i].pc = "executing"
                /\ Includes(inv'[i].raised, "already processed") )
              => count(processedCommands') = count(processedCommands)
        /\ (cleared' /\ markedSinceClear' = {})
           => /\ count(processedCommands') = 0
              /\ \A command_id \in CommandIds : ~isProcessed(processedCommands', command_id)
        /\ \A i \in Invocations :
              ( /\ inv[i].pc = "idle"
                /\ inv'[i].pc # "idle"
                /\ cleared
                /\ inv'[i].command.command_id \notin markedSinceClear
                /\ inv'[i].raised = NoError )
              => /\ inv'[i].pc = "executing"
                 /\ "execute" \in StepsTaken(inv'[i])
      ]_vars

\* two handle() calls of one command_id have both succeeded, the second
\* having marked the command after a clear() had wiped the record of the
\* first, and clear() was the last direct call of the store
C30_Witness ==
    /\ cleared
    /\ Has(storeCall, "op")
    /\ storeCall.op = "clear"
    /\ \E i, j \in Invocations :
          /\ i # j
          /\ Succeeded(i) /\ Succeeded(j)
          /\ CommandIdOf(i) = CommandIdOf(j)
          /\ isProcessed(processedCommands, CommandIdOf(j))
          /\ count(processedCommands) = 1
\* C31: all handler instances share one process-wide store: every
\* constructed instance holds the store globalStore refers to, and a handle()
\* call on one instance for a command_id that a call on another instance has
\* processed successfully takes the duplicate path, whatever its command_type.
C31_InstancesShareOneStore ==
    [][ /\ \A i \in Constructed' : idempotencyStore'[i] = globalStore'
        /\ \A i, j \in Constructed' : idempotencyStore'[i] = idempotencyStore'[j]
        /\ \A j \in Invocations :
              ( /\ inv[j].pc = "idle"
                /\ inv'[j].pc # "idle"
                /\ \E i \in Invocations \ {j} :
                      /\ Succeeded(i)
                      /\ CommandIdOf(i) = inv'[j].command.command_id )
              => /\ inv'[j].steps = DuplicatePath
                 /\ HasFact(inv'[j])
                 /\ ReasonCodeOf(inv'[j]) = "DUPLICATE_COMMAND"
                 /\ inv'[j].executed = Undefined
      ]_vars

\* a command_id processed through one instance as a TestCommand has been
\* detected as a duplicate on another instance as an InitiatePayment
C31_Witness ==
    \E i, j \in Constructed :
        /\ i # j
        /\ Succeeded(i)
        /\ inv[i].command.command_type = "TestCommand"
        /\ inv[j].steps = DuplicatePath
        /\ CommandIdOf(j) = CommandIdOf(i)
        /\ inv[j].command.command_type = "InitiatePayment"
        /\ idempotencyStore[i] = idempotencyStore[j]
\* the command_id of the handle() call whose record changes in this step
ActingCommandId(i) ==
    IF inv[i].pc = "idle" THEN inv'[i].command.command_id
    ELSE inv[i].command.command_id

\* C32: handle() calls for distinct command_ids do not interfere: a step of
\* a handle() call for command_id A leaves isProcessed and the record of
\* every other command_id, and every call for another command_id, as they
\* were, and a call is rejected as a duplicate only when its own command_id
\* is in the store.
C32_DistinctIdsDoNotInterfere ==
    [][ \A i \in Invocations :
          inv'[i] # inv[i]
          => /\ \A B \in CommandIds \ {ActingCommandId(i)} :
                   /\ isProcessed(processedCommands', B) = isProcessed(processedCommands, B)
                   /\ getRecord(processedCommands', B) = getRecord(processedCommands, B)
             /\ \A j \in Invocations \ {i} : inv'[j] = inv[j]
             /\ (inv[i].pc = "idle" /\ inv'[i].steps = DuplicatePath)
                   => /\ isProcessed(processedCommands, ActingCommandId(i))
                      /\ getRecord(processedCommands, ActingCommandId(i)).command_id
                            = ActingCommandId(i)
      ]_vars

\* two handle() calls for distinct command_ids have both been processed
C32_Witness ==
    \E i, j \in Invocations :
        /\ Succeeded(i) /\ Succeeded(j)
        /\ CommandIdOf(i) # CommandIdOf(j)
        /\ count(processedCommands) = 2
        /\ getRecord(processedCommands, CommandIdOf(i)).result_event_id = inv[i].executed
        /\ getRecord(processedCommands, CommandIdOf(j)).result_event_id = inv[j].executed
\* invocation i has had its markProcessed find the key already present
MarkFoundKeyPresent(i) ==
    /\ inv[i].executed # Undefined
    /\ Includes(inv[i].raised, "already processed")

\* C33: of the handle() calls for one command_id at most one returns
\* success=true, and a call whose markProcessed found the key already present
\* returns success=false.
C33_AtMostOneSuccess ==
    /\ \A i, j \in Invocations :
          (i # j /\ Succeeded(i) /\ Succeeded(j)) => CommandIdOf(i) # CommandIdOf(j)
    /\ \A i \in Invocations :
          (Finished(i) /\ MarkFoundKeyPresent(i))
              => /\ inv[i].pc = "returned"
                 /\ ~inv[i].result.success
\* C34: no handle() call reports its command as rejected after its own
\* execute has run to completion and returned a domain event: such a call
\* never enters handleRejection, builds no CommandRejected fact, and ends
\* with success=true.
C34_NoRejectionAfterOwnExecute ==
    \A i \in Invocations :
        inv[i].executed \in DomainEventIds
            => /\ "handleRejection" \notin StepsTaken(inv[i])
               /\ ~HasFact(inv[i])
               /\ Finished(i) => Succeeded(i)
\* invocation i is suspended at one of the awaits of handle()
Suspended(i) == inv[i].pc \in {"executing", "awaitEmit"}

\* C35: every handle() call terminates: a call suspended at an await is
\* always resumable whatever the other calls are doing, so it waits on no
\* other call, and it eventually returns a CommandResult or throws.
C35_EveryCallTerminates ==
    /\ [](\A i \in Invocations :
             /\ inv[i].pc = "executing" => ENABLED executeSettles(i)
             /\ inv[i].pc = "awaitEmit" => ENABLED emitSettles(i))
    /\ \A i \in Invocations : Suspended(i) ~> Finished(i)

\* two calls for one command_id ran concurrently and both have finished
C35_Witness ==
    \E i, j \in Invocations :
        /\ i # j
        /\ Finished(i) /\ Finished(j)
        /\ CommandIdOf(i) = CommandIdOf(j)
        /\ MarkFoundKeyPresent(j)
====
